---- MODULE Spec2Model ----
(***************************************************************************)
(* A model of guntarion/mistral-ocr: src/ocr_pdf.py and src/main.py.       *)
(*                                                                         *)
(* Python strings are modelled as sequences of one-character strings, so   *)
(* that `in`, str.replace, str.join and the f-strings are computed on the  *)
(* characters and not assumed.                                             *)
(***************************************************************************)
EXTENDS Integers, Sequences, FiniteSets, TLC

(***************************************************************************)
(* Bounds of the model.                                                    *)
(***************************************************************************)
\* the longest page list of a result
MaxPages == 2

(***************************************************************************)
(* Strings.                                                                *)
(***************************************************************************)
\* `sub in s` of Python, for strings
Contains(s, sub) ==
    \E i \in 1..(Len(s) - Len(sub) + 1) : SubSeq(s, i, i + Len(sub) - 1) = sub

\* s.replace(old, new) of Python: every non-overlapping occurrence, leftmost
\* first (old is never empty here: every pattern starts with "!")
RECURSIVE Replace(_, _, _)
Replace(s, old, new) ==
    IF Len(s) < Len(old) THEN s
    ELSE IF SubSeq(s, 1, Len(old)) = old
         THEN new \o Replace(SubSeq(s, Len(old) + 1, Len(s)), old, new)
         ELSE <<s[1]>> \o Replace(Tail(s), old, new)

Digit(d) == <<"0", "1", "2", "3", "4", "5", "6", "7", "8", "9">>[d + 1]

\* str(n) inside an f-string, n >= 0
RECURSIVE IntToStr(_)
IntToStr(n) == IF n < 10 THEN <<Digit(n)>> ELSE IntToStr(n \div 10) \o <<Digit(n % 10)>>

\* sep.join(parts)
RECURSIVE Join(_, _)
Join(sep, parts) ==
    IF parts = <<>> THEN <<>>
    ELSE IF Len(parts) = 1 THEN parts[1]
    ELSE parts[1] \o sep \o Join(sep, Tail(parts))

\* "\n\n"
Prefix == <<"\n", "\n">>
\* "\n\n---\n\n"
Separator == <<"\n", "\n", "-", "-", "-", "\n", "\n">>
\* the heading numbered from zero, as enumerate counts
HeadingZeroBased(page_num) ==
    <<"#", "#", " ", "P", "a", "g", "e", " ">> \o IntToStr(page_num - 1) \o <<"\n", "\n">>

\* f"## Page {page_num}\n\n"
Heading(page_num) ==
    <<"#", "#", " ", "P", "a", "g", "e", " ">> \o IntToStr(page_num) \o <<"\n", "\n">>

\* f"{images_dir}/{img.id}" if images_dir else img.id; an unset images_dir is
\* None, modelled as the empty string (both are falsy)
ImgPath(images_dir, id) == IF images_dir # <<>> THEN images_dir \o <<"/">> \o id ELSE id

\* f"![Image {img.id}]({img_path})"
ImageLink(images_dir, id) ==
    <<"!", "[", "I", "m", "a", "g", "e", " ">> \o id \o <<"]", "(">>
        \o ImgPath(images_dir, id) \o <<")">>

\* f"!{img.id}!"
Pattern1(id) == <<"!">> \o id \o <<"!">>
\* f"![{img.id}]({img.id})"
Pattern2(id) == <<"!", "[">> \o id \o <<"]", "(">> \o id \o <<")">>
\* f"![img-{i}.jpeg](img-{i}.jpeg)", i the zero-based index of the page
ImgName(i) == <<"i", "m", "g", "-">> \o IntToStr(i) \o <<".", "j", "p", "e", "g">>
Pattern3(i) == <<"!", "[">> \o ImgName(i) \o <<"]", "(">> \o ImgName(i) \o <<")">>

\* if old in s: s = s.replace(old, new)
ReplaceIfIn(s, old, new) == IF Contains(s, old) THEN Replace(s, old, new) ELSE s

(***************************************************************************)
(* The values the functions are given.                                     *)
(*                                                                         *)
(* A result is [shape, pageKind, pages]: shape "object" has a pages        *)
(* attribute, "dict" a "pages" key, "list" is a bare list; "int", "none"   *)
(* and "str" are values of no recognised shape (pages is then empty and    *)
(* never read).  pageKind says how each page carries its fields: "attr"    *)
(* as attributes, "dict" as keys.  A page is [hasMarkdown, markdown,       *)
(* hasImages, images]; an image is [hasId, id, hasData, data], data being  *)
(* the image_base64 text.                                                  *)
(***************************************************************************)
Image(id, data) == [hasId |-> TRUE, id |-> id, hasData |-> TRUE, data |-> data]
\* an image reference without image_base64 (the API's default response)
ImageNoData(id) == [hasId |-> TRUE, id |-> id, hasData |-> FALSE, data |-> <<>>]
\* an image entry exposing neither id nor image_base64
ImageNoId == [hasId |-> FALSE, id |-> <<>>, hasData |-> FALSE, data |-> <<>>]

IdA == <<"a">>
IdB == <<"b">>
\* base64 of the bytes "A" and "B"
DataA == <<"Q", "Q", "=", "=">>
DataB == <<"Q", "g", "=", "=">>

\* the markdown texts of the sample pages
TextPlain == <<"x">>
\* "!a![a](a)![a](a)!b!": the first two patterns of image a, overlapping,
\* and the first pattern of image b
TextA == Pattern1(IdA) \o <<"[", "a", "]", "(", "a", ")">> \o Pattern2(IdA) \o Pattern1(IdB)
\* "![img-0.jpeg](img-0.jpeg)![img-1.jpeg](img-1.jpeg)": the placeholders of
\* the first two pages, with the id of no image in them
TextPlaceholders == Pattern3(0) \o Pattern3(1)
Texts == {TextPlain, TextA, TextPlaceholders}

\* the image lists of the sample pages
ImageLists ==
    { <<>>,
      <<Image(IdA, DataA), Image(IdB, <<>>)>>,
      <<Image(IdB, DataB), ImageNoData(IdA), ImageNoId>> }

Pages ==
    { [hasMarkdown |-> TRUE, markdown |-> t, hasImages |-> TRUE, images |-> l] :
          t \in Texts, l \in ImageLists }
    \cup { [hasMarkdown |-> FALSE, markdown |-> <<>>, hasImages |-> TRUE, images |-> l] :
          l \in ImageLists }
    \cup { [hasMarkdown |-> TRUE, markdown |-> t, hasImages |-> FALSE, images |-> <<>>] :
          t \in Texts }

PageLists == UNION { [1..n -> Pages] : n \in 0..MaxPages }

Recognised ==
    { [shape |-> s[1], pageKind |-> s[2], pages |-> ps] :
          s \in { <<"object", "attr">>, <<"object", "dict">>, <<"dict", "dict">>,
                  <<"list", "attr">>, <<"list", "dict">> },
          ps \in PageLists }
Unrecognised ==
    { [shape |-> s, pageKind |-> "attr", pages |-> <<>>] : s \in {"int", "none", "str"} }
Results == Recognised \cup Unrecognised

\* the images_dir arguments: None (the empty string here) and "d"
ImagesDirs == { <<>>, <<"d">> }

(***************************************************************************)
(* extract_markdown_from_result                                            *)
(***************************************************************************)
\* the three replacements, the link appended when none of them matched
SubstituteImageAppending(page_content, img, i, images_dir) ==
    LET link == ImageLink(images_dir, img.id)
        s1 == ReplaceIfIn(page_content, Pattern1(img.id), link)
        s2 == ReplaceIfIn(s1, Pattern2(img.id), link)
        s3 == ReplaceIfIn(s2, Pattern3(i), link)
    IN  IF s3 = page_content THEN page_content \o link ELSE s3

\* the three replacements of one image, lines 122-140
SubstituteImage(page_content, img, i, images_dir) ==
    LET link == ImageLink(images_dir, img.id)
        s1 == ReplaceIfIn(page_content, Pattern1(img.id), link)
        s2 == ReplaceIfIn(s1, Pattern2(img.id), link)
    IN  ReplaceIfIn(s2, Pattern3(i), link)

\* for img in page.images: if hasattr(img, 'id'): ..., lines 119-140
RECURSIVE SubstituteImages(_, _, _, _)
SubstituteImages(page_content, images, i, images_dir) ==
    IF images = <<>> THEN page_content
    ELSE SubstituteImages(
             IF Head(images).hasId
             THEN SubstituteImage(page_content, Head(images), i, images_dir)
             ELSE page_content,
             Tail(images), i, images_dir)

\* the body of the loop over result.pages, lines 110-140; i is zero-based
ObjectPageContent(pageKind, page, i, include_images, images_dir) ==
    LET text == Heading(i + 1) \o (IF page.hasMarkdown THEN page.markdown ELSE <<>>)
    IN  IF include_images /\ pageKind = "attr" /\ page.hasImages /\ page.images # <<>>
        THEN SubstituteImages(text, page.images, i, images_dir)
        ELSE text

\* the body of the loops over result["pages"] and over result, lines 147-150
\* and 156-161
PlainPageContent(page, i) ==
    Heading(i + 1) \o (IF page.hasMarkdown THEN page.markdown ELSE <<>>)

\* pages_content as line 164 finds it
PagesContent(res, include_images, images_dir) ==
    CASE res.shape = "object" ->
           [k \in 1..Len(res.pages) |->
               ObjectPageContent(res.pageKind, res.pages[k], k - 1, include_images, images_dir)]
      [] res.shape \in {"dict", "list"} ->
           [k \in 1..Len(res.pages) |-> PlainPageContent(res.pages[k], k - 1)]
      [] OTHER -> <<>>

\* the join without the leading blank line
JoinPagesNoPrefix(pages_content) == Join(Separator, pages_content)

\* line 165
JoinPages(pages_content) == Prefix \o Join(Separator, pages_content)

ExtractMarkdown(res, include_images, images_dir) ==
    JoinPages(PagesContent(res, include_images, images_dir))

(***************************************************************************)
(* save_images_from_ocr                                                    *)
(***************************************************************************)
\* the base64 alphabet; B64Value is the six-bit value of a character
B64Alphabet ==
    << "A", "B", "C", "D", "E", "F", "G", "H", "I", "J", "K", "L", "M", "N", "O", "P",
       "Q", "R", "S", "T", "U", "V", "W", "X", "Y", "Z", "a", "b", "c", "d", "e", "f",
       "g", "h", "i", "j", "k", "l", "m", "n", "o", "p", "q", "r", "s", "t", "u", "v",
       "w", "x", "y", "z", "0", "1", "2", "3", "4", "5", "6", "7", "8", "9", "+", "/" >>
B64Value(c) == (CHOOSE k \in 1..64 : B64Alphabet[k] = c) - 1

\* base64.b64decode of padded base64 text: four characters give up to three bytes
RECURSIVE B64Decode(_)
B64Decode(data) ==
    IF Len(data) < 4 THEN <<>>
    ELSE LET pad == IF data[3] = "=" THEN 2 ELSE IF data[4] = "=" THEN 1 ELSE 0
             v(k) == IF data[k] = "=" THEN 0 ELSE B64Value(data[k])
             n == v(1) * 262144 + v(2) * 4096 + v(3) * 64 + v(4)
             bytes == << n \div 65536, (n \div 256) % 256, n % 256 >>
         IN  SubSeq(bytes, 1, 3 - pad) \o B64Decode(SubSeq(data, 5, Len(data)))

\* the images the loops of lines 76-78 visit, in order: those of the pages
\* that have a non-empty images attribute
RECURSIVE ImagesVisited(_, _)
ImagesVisited(pageKind, pages) ==
    IF pages = <<>> THEN <<>>
    ELSE (IF pageKind = "attr" /\ Head(pages).hasImages THEN Head(pages).images ELSE <<>>)
         \o ImagesVisited(pageKind, Tail(pages))

Out(text, arg) == [text |-> text, arg |-> arg]

\* the loop that tests hasattr(img, 'image_base64') alone, an empty
\* image_base64 counted and written like any other
RECURSIVE SaveLoopCountingEmpty(_, _)
SaveLoopCountingEmpty(images, acc) ==
    IF images = <<>> \/ acc.raised # "none" THEN acc
    ELSE LET img == Head(images)
         IN  IF img.hasData
             THEN IF img.hasId
                  THEN SaveLoopCountingEmpty(Tail(images),
                         [acc EXCEPT !.image_count = @ + 1,
                                     !.written = Append(@, [name |-> img.id,
                                                             bytes |-> B64Decode(img.data)]),
                                     !.stdout = Append(@, Out("Saved image", img.id))])
                  ELSE [acc EXCEPT !.image_count = @ + 1, !.raised = "AttributeError"]
             ELSE SaveLoopCountingEmpty(Tail(images), acc)

\* lines 79-84 for each image in turn; acc is [image_count, written, stdout,
\* raised], written the sequence of files written, oldest first
RECURSIVE SaveLoop(_, _)
SaveLoop(images, acc) ==
    IF images = <<>> \/ acc.raised # "none" THEN acc
    ELSE LET img == Head(images)
         IN  IF img.hasData /\ img.data # <<>>
             THEN IF img.hasId
                  THEN SaveLoop(Tail(images),
                         [acc EXCEPT !.image_count = @ + 1,
                                     !.written = Append(@, [name |-> img.id,
                                                             bytes |-> B64Decode(img.data)]),
                                     !.stdout = Append(@, Out("Saved image", img.id))])
                  \* f"{img.id}" of an image without id, after the count was raised
                  ELSE [acc EXCEPT !.image_count = @ + 1, !.raised = "AttributeError"]
             ELSE SaveLoop(Tail(images), acc)

\* lines 73-89, after the mkdir of line 71; ocr_response.pages of line 76
\* exists on the "object" shape alone
SaveImages(res) ==
    LET start == [image_count |-> 0, written |-> <<>>, stdout |-> <<>>, raised |-> "none"]
    IN  IF res.shape # "object" THEN [start EXCEPT !.raised = "AttributeError"]
        ELSE LET acc == SaveLoop(ImagesVisited(res.pageKind, res.pages), start)
             IN  IF acc.raised # "none" THEN acc
                 ELSE [acc EXCEPT !.stdout =
                          Append(@, IF acc.image_count > 0
                                    THEN Out("Saved images", IntToStr(acc.image_count))
                                    ELSE Out("No images found", <<>>))]

\* the files of a directory after the writes of `written`, a later write to
\* a name replacing the earlier one
RECURSIVE WriteAll(_, _, _)
WriteAll(fs, dir, written) ==
    IF written = <<>> THEN fs
    ELSE WriteAll(([dir |-> dir, name |-> Head(written).name] :> Head(written).bytes) @@ fs,
                  dir, Tail(written))

(***************************************************************************)
(* The command line run of ocr_pdf.py and the ocr_pdf function of main.py. *)
(***************************************************************************)
\* "d.pdf", the pdf_path argument
PdfPath == <<"d", ".", "p", "d", "f">>

\* os.path.basename
RECURSIVE Basename(_)
Basename(path) ==
    IF \E k \in 1..Len(path) : path[k] = "/"
    THEN Basename(SubSeq(path, (CHOOSE k \in 1..Len(path) : path[k] = "/") + 1, Len(path)))
    ELSE path

\* os.path.splitext(name)[0]: the name up to its last dot, a leading dot kept
SplitextRoot(name) ==
    LET dots == { k \in 2..Len(name) : name[k] = "." }
    IN  IF dots = {} THEN name
        ELSE SubSeq(name, 1, (CHOOSE k \in dots : \A j \in dots : j <= k) - 1)

\* line 178
PdfName == SplitextRoot(Basename(PdfPath))
\* line 179: f"{pdf_name}_ocr_results"; a path is the sequence of its components
OutputDir == << PdfName \o <<"_", "o", "c", "r", "_", "r", "e", "s", "u", "l", "t", "s">> >>
\* line 180: os.path.join(output_dir, "images")
CliImagesDir == Append(OutputDir, <<"i", "m", "a", "g", "e", "s">>)
\* line 198: "./images"
MarkdownImagesDir == <<".", "/", "i", "m", "a", "g", "e", "s">>
\* line 194 and line 207
MarkdownName == PdfName \o <<".", "m", "d">>
JsonName == PdfName \o <<"_", "r", "a", "w", ".", "j", "s", "o", "n">>
\* the output_dir of a direct call of save_images_from_ocr
LibOutputDir == << <<"o">> >>

\* `api_key is None`: an empty MISTRAL_API_KEY passes
KeyUnset(key) == ~key.set

\* `not api_key` of line 29: the variable is unset (None) or empty
KeyMissing(key) == ~key.set \/ key.value = <<>>

\* `except ValueError`
CatchesValueError(exc) == exc = "ValueError"

\* `except Exception` of line 258
Catches(exc) == exc # "none"

\* lines 209-224: obj_to_dict turns an object and its pages into dicts; a
\* value without __dict__ is dumped as it is
ObjToDict(res) ==
    IF res.shape = "object" THEN [res EXCEPT !.shape = "dict", !.pageKind = "dict"] ELSE res

NoResult == [shape |-> "none", pageKind |-> "attr", pages |-> <<>>]
Pending == [type |-> "pending", val |-> <<>>]
None == [type |-> "NoneType", val |-> <<>>]

\* the responses ocr.process gives in the runs of the command line
CliPages ==
    { <<>>,
      << [hasMarkdown |-> TRUE, markdown |-> TextPlain, hasImages |-> TRUE,
          images |-> <<Image(IdA, DataA), Image(IdB, <<>>)>>],
         [hasMarkdown |-> TRUE, markdown |-> TextPlaceholders, hasImages |-> TRUE,
          images |-> <<Image(IdB, DataB), ImageNoData(IdA), ImageNoId>>] >> }
CliResults ==
    { [shape |-> s[1], pageKind |-> s[2], pages |-> ps] :
          s \in { <<"object", "attr">>, <<"dict", "dict">> }, ps \in CliPages }

ApiKeys == { [set |-> FALSE, value |-> <<>>], [set |-> TRUE, value |-> <<>>],
             [set |-> TRUE, value |-> <<"k">>] }
OutputFormats == {"markdown", "json", "both"}

Event(kind, what) == [kind |-> kind, what |-> what]

\* the filesystem events of save_images_from_ocr: the mkdir, then the writes
SaveEvents(r) ==
    <<Event("fs", "mkdir images")>> \o [k \in 1..Len(r.written) |-> Event("fs", "write image")]

VARIABLES
    called,         \* the function or program that runs: "none" before a direct call
    pc,             \* where it stands
    result,         \* the OCR result: the argument of a direct call, or ocr.process's value
    include_images, \* extract_markdown_from_result's argument
    images_dir,     \* extract_markdown_from_result's argument
    pages_content,  \* extract_markdown_from_result's list at line 164
    ret,            \* what the function returned
    raised,         \* the exception that propagates, "none" when none does
    image_count,    \* save_images_from_ocr's counter
    dirs,           \* the directories created
    files,          \* the files written: [dir, name] -> content
    stdout,         \* the lines printed
    events,         \* the network, filesystem and raise steps, in order
    api_key,        \* MISTRAL_API_KEY in the environment
    save_images,    \* --save-images
    output_format,  \* --output-format
    pdf_readable    \* whether open(pdf_path, "rb") succeeds

vars == << called, pc, result, include_images, images_dir, pages_content, ret, raised,
           image_count, dirs, files, stdout, events, api_key, save_images,
           output_format, pdf_readable >>

args == << include_images, images_dir >>
env == << api_key, save_images, output_format, pdf_readable >>
fs == << dirs, files >>
locals == << pages_content, ret, image_count >>

Init ==
    /\ include_images = FALSE
    /\ images_dir = <<>>
    /\ pages_content = <<>>
    /\ ret = Pending
    /\ raised = "none"
    /\ image_count = 0
    /\ dirs = {}
    /\ files = << >>
    /\ stdout = <<>>
    /\ events = <<>>
    /\ \/ /\ called = "none"
          /\ pc = "call"
          /\ result \in Results
          /\ api_key = [set |-> TRUE, value |-> <<"k">>]
          /\ save_images = FALSE
          /\ output_format = "markdown"
          /\ pdf_readable = TRUE
       \/ /\ called = "main"
          /\ pc = "process_and_save_results"
          /\ result = NoResult
          /\ api_key \in ApiKeys
          /\ save_images \in BOOLEAN
          /\ output_format \in OutputFormats
          /\ pdf_readable \in BOOLEAN
       \/ /\ called = "main.ocr_pdf"
          /\ pc = "ocr_pdf"
          /\ result = NoResult
          /\ api_key \in ApiKeys
          /\ save_images = FALSE
          /\ output_format = "markdown"
          /\ pdf_readable \in BOOLEAN

(***************************************************************************)
(* Direct calls of the two functions of ocr_pdf.py.                        *)
(***************************************************************************)
ExtractMarkdownCall(inc, dir) ==
    /\ called = "none"
    /\ pc = "call"
    /\ called' = "extract_markdown_from_result"
    /\ include_images' = inc
    /\ images_dir' = dir
    /\ pages_content' = PagesContent(result, inc, dir)
    /\ ret' = [type |-> "str", val |-> JoinPages(PagesContent(result, inc, dir))]
    /\ pc' = "returned"
    /\ UNCHANGED << result, raised, image_count, fs, stdout, events, env >>

SaveImagesCall ==
    /\ called = "none"
    /\ pc = "call"
    /\ called' = "save_images_from_ocr"
    /\ LET r == SaveImages(result)
       IN  /\ dirs' = dirs \cup {LibOutputDir}
           /\ files' = WriteAll(files, LibOutputDir, r.written)
           /\ stdout' = stdout \o r.stdout
           /\ events' = events \o SaveEvents(r)
           /\ image_count' = r.image_count
           /\ raised' = r.raised
           /\ ret' = IF r.raised = "none" THEN None ELSE Pending
           /\ pc' = IF r.raised = "none" THEN "returned" ELSE "raised"
    /\ UNCHANGED << result, args, pages_content, env >>

(***************************************************************************)
(* python ocr_pdf.py d.pdf [--save-images] [--output-format ...]           *)
(***************************************************************************)
\* an exception leaves process_and_save_results for main's except clause,
\* after the steps `done`
Raise(exc, done) ==
    /\ raised' = exc
    /\ pc' = "except"
    /\ events' = events \o done \o <<Event("raise", exc)>>

\* process_and_save_results, lines 178-187
MakeDirs ==
    /\ called = "main"
    /\ pc = "process_and_save_results"
    /\ dirs' = dirs \cup {OutputDir} \cup (IF save_images THEN {CliImagesDir} ELSE {})
    /\ events' = events \o <<Event("fs", "makedirs output_dir")>>
                        \o (IF save_images THEN <<Event("fs", "makedirs images_dir")>> ELSE <<>>)
    /\ pc' = "ocr_pdf"
    /\ UNCHANGED << called, result, args, locals, raised, files, stdout, env >>

\* ocr_pdf, lines 28-32
CheckApiKey ==
    /\ called = "main"
    /\ pc = "ocr_pdf"
    /\ IF KeyMissing(api_key)
       THEN /\ Raise("ValueError", <<>>)
            /\ UNCHANGED stdout
       ELSE /\ pc' = "client"
            /\ stdout' = Append(stdout, Out("Processing PDF", PdfPath))
            /\ UNCHANGED << raised, events >>
    /\ UNCHANGED << called, result, args, locals, fs, env >>

\* line 33
CreateClient ==
    /\ called = "main"
    /\ pc = "client"
    /\ events' = Append(events, Event("net", "Mistral"))
    /\ pc' = "upload"
    /\ UNCHANGED << called, result, args, locals, raised, fs, stdout, env >>

\* lines 36-41: open the PDF, then upload it
UploadPdf ==
    /\ called = "main"
    /\ pc = "upload"
    /\ stdout' = Append(stdout, Out("Uploading PDF to Mistral API...", <<>>))
    /\ IF ~pdf_readable
       THEN Raise("FileNotFoundError", <<Event("fs", "open pdf")>>)
       ELSE LET done == <<Event("fs", "open pdf"), Event("net", "files.upload")>>
            IN  \E ok \in BOOLEAN :
                  IF ok THEN /\ pc' = "signed_url"
                             /\ events' = events \o done
                             /\ UNCHANGED raised
                  ELSE Raise("UpstreamError", done)
    /\ UNCHANGED << called, result, args, locals, fs, env >>

\* line 44
GetSignedUrl ==
    /\ called = "main"
    /\ pc = "signed_url"
    /\ \E ok \in BOOLEAN :
         IF ok THEN /\ pc' = "ocr"
                    /\ events' = Append(events, Event("net", "files.get_signed_url"))
                    /\ UNCHANGED raised
         ELSE Raise("UpstreamError", <<Event("net", "files.get_signed_url")>>)
    /\ UNCHANGED << called, result, args, locals, fs, stdout, env >>

\* lines 47-54
OcrProcess ==
    /\ called = "main"
    /\ pc = "ocr"
    /\ \E ok \in BOOLEAN :
         IF ok
         THEN /\ result' \in CliResults
              /\ pc' = "save_images"
              /\ events' = Append(events, Event("net", "ocr.process"))
              /\ stdout' = stdout \o << Out("Running OCR processing", <<>>),
                                        Out("OCR processing completed", <<>>) >>
              /\ UNCHANGED raised
         ELSE /\ Raise("UpstreamError", <<Event("net", "ocr.process")>>)
              /\ stdout' = Append(stdout, Out("Running OCR processing", <<>>))
              /\ UNCHANGED result
    /\ UNCHANGED << called, args, locals, fs, env >>

\* lines 57-65; output_dir is images_dir of line 180, which is set whenever
\* save_images is, so lines 58-61 are not run from the command line
SaveImagesStep ==
    /\ called = "main"
    /\ pc = "save_images"
    /\ IF save_images /\ result.shape = "object"
       THEN LET r == SaveImages(result)
            IN  /\ dirs' = dirs \cup {CliImagesDir}
                /\ files' = WriteAll(files, CliImagesDir, r.written)
                /\ stdout' = stdout \o r.stdout
                /\ image_count' = r.image_count
                /\ IF r.raised = "none"
                   THEN /\ pc' = "markdown"
                        /\ events' = events \o SaveEvents(r)
                        /\ UNCHANGED raised
                   ELSE Raise(r.raised, SaveEvents(r))
       ELSE /\ pc' = "markdown"
            /\ UNCHANGED << fs, stdout, events, image_count, raised >>
    /\ UNCHANGED << called, result, args, pages_content, ret, env >>

\* lines 193-203
WriteMarkdown ==
    /\ called = "main"
    /\ pc = "markdown"
    /\ IF output_format \in {"markdown", "md", "both"}
       THEN LET dir == IF save_images THEN MarkdownImagesDir ELSE <<>>
                content == PagesContent(result, save_images, dir)
            IN  /\ include_images' = save_images
                /\ images_dir' = dir
                /\ pages_content' = content
                /\ files' = ([dir |-> OutputDir, name |-> MarkdownName] :> JoinPages(content))
                                @@ files
                /\ events' = Append(events, Event("fs", "write markdown"))
                /\ stdout' = Append(stdout, Out("Markdown content written", MarkdownName))
       ELSE UNCHANGED << args, pages_content, files, events, stdout >>
    /\ pc' = "json"
    /\ UNCHANGED << called, result, ret, raised, image_count, dirs, env >>

\* lines 206-230
WriteJson ==
    /\ called = "main"
    /\ pc = "json"
    /\ IF output_format \in {"json", "both"}
       THEN /\ files' = ([dir |-> OutputDir, name |-> JsonName] :> ObjToDict(result)) @@ files
            /\ events' = Append(events, Event("fs", "write json"))
            /\ stdout' = Append(stdout, Out("Raw JSON response written", JsonName))
       ELSE UNCHANGED << files, events, stdout >>
    /\ pc' = "success"
    /\ UNCHANGED << called, result, args, locals, raised, dirs, env >>

\* main, line 257
PrintSuccess ==
    /\ called = "main"
    /\ pc = "success"
    /\ stdout' = Append(stdout, Out("OCR processing completed successfully", OutputDir[1]))
    /\ pc' = "exit"
    /\ UNCHANGED << called, result, args, locals, raised, fs, events, env >>

\* main, lines 258-259: an exception the clause does not catch leaves main
PrintError ==
    /\ called = "main"
    /\ pc = "except"
    /\ IF Catches(raised)
       THEN /\ stdout' = Append(stdout, Out("Error processing PDF", <<raised>>))
            /\ raised' = "none"
       ELSE UNCHANGED << stdout, raised >>
    /\ pc' = "exit"
    /\ UNCHANGED << called, result, args, locals, fs, events, env >>

(***************************************************************************)
(* ocr_pdf of main.py, as one call: the steps it takes up to its return or *)
(* to the first step that fails (step 3, 4 or 5 of MainPySteps; 0: none).  *)
(***************************************************************************)
MainPySteps ==
    << Event("net", "Mistral"), Event("fs", "open pdf"), Event("net", "files.upload"),
       Event("net", "files.get_signed_url"), Event("net", "ocr.process") >>

MainPyOcrPdf ==
    /\ called = "main.ocr_pdf"
    /\ pc = "ocr_pdf"
    /\ IF KeyMissing(api_key)
       THEN /\ raised' = "ValueError"
            /\ events' = Append(events, Event("raise", "ValueError"))
            /\ pc' = "raised"
            /\ UNCHANGED << result, ret >>
       ELSE IF ~pdf_readable
       THEN /\ raised' = "FileNotFoundError"
            /\ events' = events \o SubSeq(MainPySteps, 1, 2)
                                \o <<Event("raise", "FileNotFoundError")>>
            /\ pc' = "raised"
            /\ UNCHANGED << result, ret >>
       ELSE \E failed \in {0, 3, 4, 5} :
              IF failed = 0
              THEN /\ result' \in CliResults
                   /\ ret' = [type |-> "OCRResponse", val |-> <<>>]
                   /\ events' = events \o MainPySteps
                   /\ pc' = "returned"
                   /\ UNCHANGED raised
              ELSE /\ raised' = "UpstreamError"
                   /\ events' = events \o SubSeq(MainPySteps, 1, failed)
                                       \o <<Event("raise", "UpstreamError")>>
                   /\ pc' = "raised"
                   /\ UNCHANGED << result, ret >>
    /\ UNCHANGED << called, args, pages_content, image_count, fs, stdout, env >>

Next ==
    \/ \E inc \in BOOLEAN, dir \in ImagesDirs : ExtractMarkdownCall(inc, dir)
    \/ SaveImagesCall
    \/ MakeDirs
    \/ CheckApiKey
    \/ CreateClient
    \/ UploadPdf
    \/ GetSignedUrl
    \/ OcrProcess
    \/ SaveImagesStep
    \/ WriteMarkdown
    \/ WriteJson
    \/ PrintSuccess
    \/ PrintError
    \/ MainPyOcrPdf

Spec == Init /\ [][Next]_vars

(***************************************************************************)
(* The properties.                                                         *)
(***************************************************************************)
RecognisedShapes == {"object", "dict", "list"}
Extracted == called = "extract_markdown_from_result"
Saved == called = "save_images_from_ocr"
MarkdownOf(page) == IF page.hasMarkdown THEN page.markdown ELSE <<>>
MarkdownFile == [dir |-> OutputDir, name |-> MarkdownName]

\* the document of C1 from page k on, written out character by character
RECURSIVE C1_Document(_, _)
C1_Document(pages, k) ==
    IF k > Len(pages) THEN <<>>
    ELSE (IF k = 1 THEN <<>> ELSE <<"\n", "\n", "-", "-", "-", "\n", "\n">>)
         \o <<"#", "#", " ", "P", "a", "g", "e", " ">> \o IntToStr(k) \o <<"\n", "\n">>
         \o MarkdownOf(pages[k])
         \o C1_Document(pages, k + 1)

\* C1: with include_images false, extract_markdown_from_result returns, for
\* every result of a recognised shape, "\n\n" followed by one block per page
\* in input order, block k being "## Page k\n\n" and the page's markdown (or
\* nothing), the blocks joined with "\n\n---\n\n"; so does the markdown file
\* of a run without --save-images.
C1_PagesInOrder ==
    /\ (Extracted /\ ~include_images /\ result.shape \in RecognisedShapes) =>
          /\ Len(pages_content) = Len(result.pages)
          /\ ret.type = "str"
          /\ ret.val = <<"\n", "\n">> \o C1_Document(result.pages, 1)
    /\ (called = "main" /\ ~save_images /\ MarkdownFile \in DOMAIN files) =>
          files[MarkdownFile] = <<"\n", "\n">> \o C1_Document(result.pages, 1)

\* C1's case: a bare list of two pages, the first without markdown
C1_Witness ==
    /\ Extracted /\ ~include_images
    /\ result.shape = "list" /\ Len(result.pages) = 2
    /\ ~result.pages[1].hasMarkdown
    /\ result.pages[2].markdown = TextA
    /\ Len(ret.val) = 50

\* the three presentations of the same pages
Presentations == { <<"object", "attr">>, <<"dict", "dict">>, <<"list", "attr">> }
Presented(res, s) == [res EXCEPT !.shape = s[1], !.pageKind = s[2]]

\* C2: whatever the pages and the options, the markdown returned is the one
\* extract_markdown_from_result returns for the same pages presented as an
\* object with a pages attribute, as a dict with a "pages" key and as a list.
C2_ShapeInvariant ==
    (Extracted /\ result.shape \in RecognisedShapes) =>
        \A s \in Presentations :
            ExtractMarkdown(Presented(result, s), include_images, images_dir) = ret.val

\* C3: with include_images true and images_dir set, the block of every page
\* whose markdown holds the token !X! of one of its images X holds the link
\* ![Image X](images_dir/X) and holds !X! no more.
C3_TokenReplaced ==
    (Extracted /\ include_images /\ images_dir # <<>> /\ result.shape \in RecognisedShapes) =>
        \A k \in 1..Len(result.pages) :
            LET page == result.pages[k]
            IN  \A j \in 1..Len(page.images) :
                    LET X == page.images[j].id
                        token == <<"!">> \o X \o <<"!">>
                        link == <<"!", "[", "I", "m", "a", "g", "e", " ">> \o X \o <<"]", "(">>
                                    \o images_dir \o <<"/">> \o X \o <<")">>
                    IN  (page.images[j].hasId /\ Contains(MarkdownOf(page), token)) =>
                            /\ Contains(pages_content[k], link)
                            /\ ~Contains(pages_content[k], token)

\* C5: for a value of no recognised shape extract_markdown_from_result
\* returns the empty string.
C5_EmptyString ==
    (Extracted /\ result.shape \notin RecognisedShapes) => ret.val = <<>>

\* C5 as amended: for a value of no recognised shape the function raises
\* nothing, collects no page and returns "\n\n", the leading blank line alone,
\* which is what it returns for an empty page list.
C5_PrefixAlone ==
    (Extracted /\ result.shape \notin RecognisedShapes) =>
        /\ raised = "none"
        /\ pc = "returned"
        /\ pages_content = <<>>
        /\ ret = [type |-> "str", val |-> <<"\n", "\n">>]

\* C5's case: None was passed with include_images set
C5_Witness ==
    /\ Extracted /\ result.shape = "none" /\ include_images
    /\ Len(ret.val) = 2

\* the reference of C10: for each image with an id, in listed order, the
\* three patterns in order, each replaced wherever it occurs
RECURSIVE C10_Reference(_, _, _, _)
C10_Reference(text, images, N, dir) ==
    IF images = <<>> THEN text
    ELSE LET X == Head(images).id
             link == <<"!", "[", "I", "m", "a", "g", "e", " ">> \o X \o <<"]", "(">>
                         \o (IF dir = <<>> THEN X ELSE dir \o <<"/">> \o X) \o <<")">>
             t1 == Replace(text, <<"!">> \o X \o <<"!">>, link)
             t2 == Replace(t1, <<"!", "[">> \o X \o <<"]", "(">> \o X \o <<")">>, link)
             t3 == Replace(t2, Pattern3(N), link)
         IN  C10_Reference(IF Head(images).hasId THEN t3 ELSE text, Tail(images), N, dir)

\* C10: with include_images true, the block of every page is its heading and
\* markdown after the replacements of the reference: the images in listed
\* order, for each the patterns !X!, ![X](X) and ![img-N.jpeg](img-N.jpeg)
\* in this order, N the zero-based index of the page.
C10_DocumentedOrder ==
    (Extracted /\ include_images /\ result.shape \in RecognisedShapes) =>
        \A k \in 1..Len(result.pages) :
            pages_content[k] =
                C10_Reference(<<"#", "#", " ", "P", "a", "g", "e", " ">> \o IntToStr(k)
                                  \o <<"\n", "\n">> \o MarkdownOf(result.pages[k]),
                              result.pages[k].images, k - 1, images_dir)

\* no image with an id has its id anywhere in the page's markdown, and one has an id
IdsAbsent(page) ==
    /\ \E j \in 1..Len(page.images) : page.images[j].hasId
    /\ \A j \in 1..Len(page.images) :
           page.images[j].hasId => ~Contains(MarkdownOf(page), page.images[j].id)

\* none of the three patterns of an image with an id occurs in the markdown
\* of the page, N its zero-based index
PatternsAbsent(page, N) ==
    /\ \E j \in 1..Len(page.images) : page.images[j].hasId
    /\ \A j \in 1..Len(page.images) :
           LET X == page.images[j].id
               text == MarkdownOf(page)
           IN  page.images[j].hasId =>
                   /\ ~Contains(text, <<"!">> \o X \o <<"!">>)
                   /\ ~Contains(text, <<"!", "[">> \o X \o <<"]", "(">> \o X \o <<")">>)
                   /\ ~Contains(text, <<"!", "[", "i", "m", "g", "-">> \o IntToStr(N)
                                          \o <<".", "j", "p", "e", "g", "]", "(", "i", "m", "g", "-">>
                                          \o IntToStr(N) \o <<".", "j", "p", "e", "g", ")">>)

\* every image of an attribute-bearing page that has an id and non-empty
\* image_base64 has its file in dir
ImagesWritten(dir) ==
    result.pageKind = "attr" =>
        \A k \in 1..Len(result.pages) : \A j \in 1..Len(result.pages[k].images) :
            LET img == result.pages[k].images[j]
            IN  (img.hasId /\ img.hasData /\ img.data # <<>>) =>
                    [dir |-> dir, name |-> img.id] \in DOMAIN files

AfterSaveImagesStep ==
    /\ called = "main" /\ save_images /\ result.shape = "object"
    /\ pc \in {"markdown", "json", "success", "exit"}

C4_StillWritten ==
    /\ (Saved /\ result.shape = "object") => (raised = "none" /\ ImagesWritten(LibOutputDir))
    /\ AfterSaveImagesStep => ImagesWritten(CliImagesDir)

C6_Count(res) ==
    IF res.pageKind # "attr" THEN 0
    ELSE Cardinality({ kj \in UNION { { <<k, j>> : j \in 1..Len(res.pages[k].images) } :
                                       k \in 1..Len(res.pages) } :
                         LET img == res.pages[kj[1]].images[kj[2]]
                         IN  img.hasData /\ img.data # <<>> })

ImageWrites == { i \in 1..Len(events) : events[i] = Event("fs", "write image") }

C6_Counted ==
    LET n == C6_Count(result)
    IN  /\ image_count = n
        /\ Cardinality(ImageWrites) = n
        /\ stdout # <<>>
        /\ stdout[Len(stdout)] = IF n > 0 THEN Out("Saved images", IntToStr(n))
                                 ELSE Out("No images found", <<>>)
        /\ n = 0 => DOMAIN files = {}

NetworkSteps == { i \in 1..Len(events) : events[i].kind = "net" }
Raises(exc) == { i \in 1..Len(events) : events[i] = Event("raise", exc) }
ErrorMessages == { i \in 1..Len(stdout) : stdout[i].text = "Error processing PDF" }

\* C7: with MISTRAL_API_KEY unset or empty, a run of ocr_pdf.py and a call of
\* main.py's ocr_pdf take no network step (client construction, upload,
\* get_signed_url, ocr.process) at any time, go on until they end, and end in
\* the ValueError of the credential check.
C7_NoNetworkWithoutKey ==
    (called \in {"main", "main.ocr_pdf"} /\ (~api_key.set \/ api_key.value = <<>>)) =>
        /\ NetworkSteps = {}
        /\ pc \in {"process_and_save_results", "ocr_pdf", "except", "exit", "raised"}
        /\ pc \notin {"exit", "raised"} => ENABLED Next
        /\ (called = "main" /\ pc = "exit") =>
              /\ Raises("ValueError") # {}
              /\ stdout = <<Out("Error processing PDF", <<"ValueError">>)>>
        /\ (called = "main.ocr_pdf" /\ pc = "raised") => raised = "ValueError"

\* C7's case: a run with an empty MISTRAL_API_KEY has ended
C7_Witness ==
    /\ called = "main" /\ pc = "exit"
    /\ api_key = [set |-> TRUE, value |-> <<>>]
    /\ Raises("ValueError") # {}
    /\ NetworkSteps = {}

\* C8: once a step of the OCR client (upload, get_signed_url, ocr.process) has
\* failed in a run of ocr_pdf.py, nothing follows the failure but main's
\* except clause: no step is taken twice, no markdown, JSON or image file is
\* written, one error message is printed and no exception leaves main.
C8_UpstreamFailure ==
    (called = "main" /\ Raises("UpstreamError") # {}) =>
        /\ \A w \in {"Mistral", "files.upload", "files.get_signed_url", "ocr.process"} :
               Cardinality({ i \in 1..Len(events) : events[i] = Event("net", w) }) <= 1
        /\ events[Len(events)] = Event("raise", "UpstreamError")
        /\ \A i \in 1..Len(events) :
               events[i].what \notin {"write markdown", "write json", "write image"}
        /\ DOMAIN files = {}
        /\ pc \in {"except", "exit"}
        /\ pc = "except" => (ErrorMessages = {} /\ ENABLED Next)
        /\ pc = "exit" => (raised = "none" /\ Cardinality(ErrorMessages) = 1)

\* C8's case: ocr.process failed in a run with --save-images --output-format both
C8_Witness ==
    /\ called = "main" /\ pc = "exit"
    /\ save_images /\ output_format = "both"
    /\ Raises("UpstreamError") # {}
    /\ \E i \in 1..Len(events) : events[i] = Event("net", "ocr.process")

\* C9: in a run of ocr_pdf.py the ValueError of the missing credential is
\* raised before any filesystem effect: no directory is created, no file
\* opened or written before it.
C9_NoIoBeforeConfigError ==
    called = "main" =>
        \A j \in Raises("ValueError") :
            /\ \A i \in 1..(j - 1) : events[i].kind # "fs"
            /\ dirs = {}

====
